---------------------------- MODULE Spec2Model ----------------------------
(***************************************************************************)
(* A model of amieclient/usage.py: ComputeUsageRecord (keyword             *)
(* construction, from_dict / from_json, as_dict / as_json) and             *)
(* UsageMessage (construction with usage-type validation, from_dict /      *)
(* from_json, as_dict / as_json and the _chunked generator).               *)
(*                                                                         *)
(* A caller session is modelled as a pipeline of calls: the first call     *)
(* takes an input drawn from a bounded set, every later call takes the     *)
(* value returned by the call before it.  `calls` records each call with   *)
(* its argument and its outcome (returned value or raised exception);      *)
(* `gen` is the frame of the one live _chunked generator.                  *)
(***************************************************************************)
EXTENDS Integers, Sequences, FiniteSets, TLC

VARIABLES calls, gen

vars == <<calls, gen>>

(***************************************************************************)
(* Bounds of the model.                                                    *)
(***************************************************************************)
MaxRecords == 3
MaxChunkSize == 2
MaxCalls == 4

\* _chunked(self, chunk_size=1000)
DefaultChunkSize == 1000

(***************************************************************************)
(* Python values.  A leaf value of a record or dictionary is a string,     *)
(* None, or such a value wrapped in one-element containers (the 1-tuple    *)
(* the constructor builds, the list json.loads returns for an array).      *)
(* wrap lists the containers from the outside in.                          *)
(***************************************************************************)
Str(s) == [wrap |-> <<>>, none |-> FALSE, s |-> s]

None == [wrap |-> <<>>, none |-> TRUE, s |-> ""]

\* the expression `v,` : a tuple of one element
Tuple1(v) == [v EXCEPT !.wrap = <<"tuple">> \o @]

\* dict.get(key): the value, or None when the key is absent
DictGet(d, key) == IF key \in DOMAIN d THEN d[key] ELSE None

EmptyDict == [k \in {} |-> None]

(***************************************************************************)
(* Strings that are inspected character by character (usage types, the     *)
(* message of UsageMessageException) are sequences of Unicode code points. *)
(* str.lower() and str.capitalize() follow CPython 3.11 (Unicode 14.0):    *)
(* each code point is replaced by its full lower-case mapping, except      *)
(* that capital sigma becomes a final or a medial small sigma by its       *)
(* context; capitalize() replaces the first code point by its full         *)
(* title-case mapping and lower-cases the rest.                            *)
(***************************************************************************)
AsciiLower(c) == IF c >= 65 /\ c <= 90 THEN c + 32 ELSE c

AsciiUpper(c) == IF c >= 97 /\ c <= 122 THEN c - 32 ELSE c

\* lower-case mapping of the code points from 128 that map to one code
\* point: runs <<first, last, step, delta>>, each first + n * step up to last
\* mapping to itself + delta
LowerRuns ==
  <<
    <<192, 214, 1, 32>>, <<216, 222, 1, 32>>, <<256, 302, 2, 1>>, <<306, 310, 2, 1>>, <<313, 327, 2, 1>>,
    <<330, 374, 2, 1>>, <<376, 376, 1, -121>>, <<377, 381, 2, 1>>, <<385, 385, 1, 210>>, <<386, 388, 2, 1>>,
    <<390, 390, 1, 206>>, <<391, 391, 1, 1>>, <<393, 394, 1, 205>>, <<395, 395, 1, 1>>, <<398, 398, 1, 79>>,
    <<399, 399, 1, 202>>, <<400, 400, 1, 203>>, <<401, 401, 1, 1>>, <<403, 403, 1, 205>>, <<404, 404, 1, 207>>,
    <<406, 406, 1, 211>>, <<407, 407, 1, 209>>, <<408, 408, 1, 1>>, <<412, 412, 1, 211>>, <<413, 413, 1, 213>>,
    <<415, 415, 1, 214>>, <<416, 420, 2, 1>>, <<422, 422, 1, 218>>, <<423, 423, 1, 1>>, <<425, 425, 1, 218>>,
    <<428, 428, 1, 1>>, <<430, 430, 1, 218>>, <<431, 431, 1, 1>>, <<433, 434, 1, 217>>, <<435, 437, 2, 1>>,
    <<439, 439, 1, 219>>, <<440, 440, 1, 1>>, <<444, 444, 1, 1>>, <<452, 452, 1, 2>>, <<453, 453, 1, 1>>,
    <<455, 455, 1, 2>>, <<456, 456, 1, 1>>, <<458, 458, 1, 2>>, <<459, 475, 2, 1>>, <<478, 494, 2, 1>>,
    <<497, 497, 1, 2>>, <<498, 500, 2, 1>>, <<502, 502, 1, -97>>, <<503, 503, 1, -56>>, <<504, 542, 2, 1>>,
    <<544, 544, 1, -130>>, <<546, 562, 2, 1>>, <<570, 570, 1, 10795>>, <<571, 571, 1, 1>>, <<573, 573, 1, -163>>,
    <<574, 574, 1, 10792>>, <<577, 577, 1, 1>>, <<579, 579, 1, -195>>, <<580, 580, 1, 69>>, <<581, 581, 1, 71>>,
    <<582, 590, 2, 1>>, <<880, 882, 2, 1>>, <<886, 886, 1, 1>>, <<895, 895, 1, 116>>, <<902, 902, 1, 38>>,
    <<904, 906, 1, 37>>, <<908, 908, 1, 64>>, <<910, 911, 1, 63>>, <<913, 929, 1, 32>>, <<931, 939, 1, 32>>,
    <<975, 975, 1, 8>>, <<984, 1006, 2, 1>>, <<1012, 1012, 1, -60>>, <<1015, 1015, 1, 1>>, <<1017, 1017, 1, -7>>,
    <<1018, 1018, 1, 1>>, <<1021, 1023, 1, -130>>, <<1024, 1039, 1, 80>>, <<1040, 1071, 1, 32>>, <<1120, 1152, 2, 1>>,
    <<1162, 1214, 2, 1>>, <<1216, 1216, 1, 15>>, <<1217, 1229, 2, 1>>, <<1232, 1326, 2, 1>>, <<1329, 1366, 1, 48>>,
    <<4256, 4293, 1, 7264>>, <<4295, 4295, 1, 7264>>, <<4301, 4301, 1, 7264>>, <<5024, 5103, 1, 38864>>, <<5104, 5109, 1, 8>>,
    <<7312, 7354, 1, -3008>>, <<7357, 7359, 1, -3008>>, <<7680, 7828, 2, 1>>, <<7838, 7838, 1, -7615>>, <<7840, 7934, 2, 1>>,
    <<7944, 7951, 1, -8>>, <<7960, 7965, 1, -8>>, <<7976, 7983, 1, -8>>, <<7992, 7999, 1, -8>>, <<8008, 8013, 1, -8>>,
    <<8025, 8031, 2, -8>>, <<8040, 8047, 1, -8>>, <<8072, 8079, 1, -8>>, <<8088, 8095, 1, -8>>, <<8104, 8111, 1, -8>>,
    <<8120, 8121, 1, -8>>, <<8122, 8123, 1, -74>>, <<8124, 8124, 1, -9>>, <<8136, 8139, 1, -86>>, <<8140, 8140, 1, -9>>,
    <<8152, 8153, 1, -8>>, <<8154, 8155, 1, -100>>, <<8168, 8169, 1, -8>>, <<8170, 8171, 1, -112>>, <<8172, 8172, 1, -7>>,
    <<8184, 8185, 1, -128>>, <<8186, 8187, 1, -126>>, <<8188, 8188, 1, -9>>, <<8486, 8486, 1, -7517>>, <<8490, 8490, 1, -8383>>,
    <<8491, 8491, 1, -8262>>, <<8498, 8498, 1, 28>>, <<8544, 8559, 1, 16>>, <<8579, 8579, 1, 1>>, <<9398, 9423, 1, 26>>,
    <<11264, 11311, 1, 48>>, <<11360, 11360, 1, 1>>, <<11362, 11362, 1, -10743>>, <<11363, 11363, 1, -3814>>, <<11364, 11364, 1, -10727>>,
    <<11367, 11371, 2, 1>>, <<11373, 11373, 1, -10780>>, <<11374, 11374, 1, -10749>>, <<11375, 11375, 1, -10783>>, <<11376, 11376, 1, -10782>>,
    <<11378, 11378, 1, 1>>, <<11381, 11381, 1, 1>>, <<11390, 11391, 1, -10815>>, <<11392, 11490, 2, 1>>, <<11499, 11501, 2, 1>>,
    <<11506, 11506, 1, 1>>, <<42560, 42604, 2, 1>>, <<42624, 42650, 2, 1>>, <<42786, 42798, 2, 1>>, <<42802, 42862, 2, 1>>,
    <<42873, 42875, 2, 1>>, <<42877, 42877, 1, -35332>>, <<42878, 42886, 2, 1>>, <<42891, 42891, 1, 1>>, <<42893, 42893, 1, -42280>>,
    <<42896, 42898, 2, 1>>, <<42902, 42920, 2, 1>>, <<42922, 42922, 1, -42308>>, <<42923, 42923, 1, -42319>>, <<42924, 42924, 1, -42315>>,
    <<42925, 42925, 1, -42305>>, <<42926, 42926, 1, -42308>>, <<42928, 42928, 1, -42258>>, <<42929, 42929, 1, -42282>>, <<42930, 42930, 1, -42261>>,
    <<42931, 42931, 1, 928>>, <<42932, 42946, 2, 1>>, <<42948, 42948, 1, -48>>, <<42949, 42949, 1, -42307>>, <<42950, 42950, 1, -35384>>,
    <<42951, 42953, 2, 1>>, <<42960, 42960, 1, 1>>, <<42966, 42968, 2, 1>>, <<42997, 42997, 1, 1>>, <<65313, 65338, 1, 32>>,
    <<66560, 66599, 1, 40>>, <<66736, 66771, 1, 40>>, <<66928, 66938, 1, 39>>, <<66940, 66954, 1, 39>>, <<66956, 66962, 1, 39>>,
    <<66964, 66965, 1, 39>>, <<68736, 68786, 1, 64>>, <<71840, 71871, 1, 32>>, <<93760, 93791, 1, 32>>, <<125184, 125217, 1, 34>>
  >>

\* code points whose lower case is more than one code point
LowerExpansions ==
  <<
    <<304, <<105, 775>>>>
  >>

\* title-case mapping of the code points from 128 that map to one code
\* point, as runs
TitleRuns ==
  <<
    <<181, 181, 1, 743>>, <<224, 246, 1, -32>>, <<248, 254, 1, -32>>, <<255, 255, 1, 121>>, <<257, 303, 2, -1>>,
    <<305, 305, 1, -232>>, <<307, 311, 2, -1>>, <<314, 328, 2, -1>>, <<331, 375, 2, -1>>, <<378, 382, 2, -1>>,
    <<383, 383, 1, -300>>, <<384, 384, 1, 195>>, <<387, 389, 2, -1>>, <<392, 392, 1, -1>>, <<396, 396, 1, -1>>,
    <<402, 402, 1, -1>>, <<405, 405, 1, 97>>, <<409, 409, 1, -1>>, <<410, 410, 1, 163>>, <<414, 414, 1, 130>>,
    <<417, 421, 2, -1>>, <<424, 424, 1, -1>>, <<429, 429, 1, -1>>, <<432, 432, 1, -1>>, <<436, 438, 2, -1>>,
    <<441, 441, 1, -1>>, <<445, 445, 1, -1>>, <<447, 447, 1, 56>>, <<452, 452, 1, 1>>, <<454, 454, 1, -1>>,
    <<455, 455, 1, 1>>, <<457, 457, 1, -1>>, <<458, 458, 1, 1>>, <<460, 476, 2, -1>>, <<477, 477, 1, -79>>,
    <<479, 495, 2, -1>>, <<497, 497, 1, 1>>, <<499, 501, 2, -1>>, <<505, 543, 2, -1>>, <<547, 563, 2, -1>>,
    <<572, 572, 1, -1>>, <<575, 576, 1, 10815>>, <<578, 578, 1, -1>>, <<583, 591, 2, -1>>, <<592, 592, 1, 10783>>,
    <<593, 593, 1, 10780>>, <<594, 594, 1, 10782>>, <<595, 595, 1, -210>>, <<596, 596, 1, -206>>, <<598, 599, 1, -205>>,
    <<601, 601, 1, -202>>, <<603, 603, 1, -203>>, <<604, 604, 1, 42319>>, <<608, 608, 1, -205>>, <<609, 609, 1, 42315>>,
    <<611, 611, 1, -207>>, <<613, 613, 1, 42280>>, <<614, 614, 1, 42308>>, <<616, 616, 1, -209>>, <<617, 617, 1, -211>>,
    <<618, 618, 1, 42308>>, <<619, 619, 1, 10743>>, <<620, 620, 1, 42305>>, <<623, 623, 1, -211>>, <<625, 625, 1, 10749>>,
    <<626, 626, 1, -213>>, <<629, 629, 1, -214>>, <<637, 637, 1, 10727>>, <<640, 640, 1, -218>>, <<642, 642, 1, 42307>>,
    <<643, 643, 1, -218>>, <<647, 647, 1, 42282>>, <<648, 648, 1, -218>>, <<649, 649, 1, -69>>, <<650, 651, 1, -217>>,
    <<652, 652, 1, -71>>, <<658, 658, 1, -219>>, <<669, 669, 1, 42261>>, <<670, 670, 1, 42258>>, <<837, 837, 1, 84>>,
    <<881, 883, 2, -1>>, <<887, 887, 1, -1>>, <<891, 893, 1, 130>>, <<940, 940, 1, -38>>, <<941, 943, 1, -37>>,
    <<945, 961, 1, -32>>, <<962, 962, 1, -31>>, <<963, 971, 1, -32>>, <<972, 972, 1, -64>>, <<973, 974, 1, -63>>,
    <<976, 976, 1, -62>>, <<977, 977, 1, -57>>, <<981, 981, 1, -47>>, <<982, 982, 1, -54>>, <<983, 983, 1, -8>>,
    <<985, 1007, 2, -1>>, <<1008, 1008, 1, -86>>, <<1009, 1009, 1, -80>>, <<1010, 1010, 1, 7>>, <<1011, 1011, 1, -116>>,
    <<1013, 1013, 1, -96>>, <<1016, 1016, 1, -1>>, <<1019, 1019, 1, -1>>, <<1072, 1103, 1, -32>>, <<1104, 1119, 1, -80>>,
    <<1121, 1153, 2, -1>>, <<1163, 1215, 2, -1>>, <<1218, 1230, 2, -1>>, <<1231, 1231, 1, -15>>, <<1233, 1327, 2, -1>>,
    <<1377, 1414, 1, -48>>, <<5112, 5117, 1, -8>>, <<7296, 7296, 1, -6254>>, <<7297, 7297, 1, -6253>>, <<7298, 7298, 1, -6244>>,
    <<7299, 7300, 1, -6242>>, <<7301, 7301, 1, -6243>>, <<7302, 7302, 1, -6236>>, <<7303, 7303, 1, -6181>>, <<7304, 7304, 1, 35266>>,
    <<7545, 7545, 1, 35332>>, <<7549, 7549, 1, 3814>>, <<7566, 7566, 1, 35384>>, <<7681, 7829, 2, -1>>, <<7835, 7835, 1, -59>>,
    <<7841, 7935, 2, -1>>, <<7936, 7943, 1, 8>>, <<7952, 7957, 1, 8>>, <<7968, 7975, 1, 8>>, <<7984, 7991, 1, 8>>,
    <<8000, 8005, 1, 8>>, <<8017, 8023, 2, 8>>, <<8032, 8039, 1, 8>>, <<8048, 8049, 1, 74>>, <<8050, 8053, 1, 86>>,
    <<8054, 8055, 1, 100>>, <<8056, 8057, 1, 128>>, <<8058, 8059, 1, 112>>, <<8060, 8061, 1, 126>>, <<8064, 8071, 1, 8>>,
    <<8080, 8087, 1, 8>>, <<8096, 8103, 1, 8>>, <<8112, 8113, 1, 8>>, <<8115, 8115, 1, 9>>, <<8126, 8126, 1, -7205>>,
    <<8131, 8131, 1, 9>>, <<8144, 8145, 1, 8>>, <<8160, 8161, 1, 8>>, <<8165, 8165, 1, 7>>, <<8179, 8179, 1, 9>>,
    <<8526, 8526, 1, -28>>, <<8560, 8575, 1, -16>>, <<8580, 8580, 1, -1>>, <<9424, 9449, 1, -26>>, <<11312, 11359, 1, -48>>,
    <<11361, 11361, 1, -1>>, <<11365, 11365, 1, -10795>>, <<11366, 11366, 1, -10792>>, <<11368, 11372, 2, -1>>, <<11379, 11379, 1, -1>>,
    <<11382, 11382, 1, -1>>, <<11393, 11491, 2, -1>>, <<11500, 11502, 2, -1>>, <<11507, 11507, 1, -1>>, <<11520, 11557, 1, -7264>>,
    <<11559, 11559, 1, -7264>>, <<11565, 11565, 1, -7264>>, <<42561, 42605, 2, -1>>, <<42625, 42651, 2, -1>>, <<42787, 42799, 2, -1>>,
    <<42803, 42863, 2, -1>>, <<42874, 42876, 2, -1>>, <<42879, 42887, 2, -1>>, <<42892, 42892, 1, -1>>, <<42897, 42899, 2, -1>>,
    <<42900, 42900, 1, 48>>, <<42903, 42921, 2, -1>>, <<42933, 42947, 2, -1>>, <<42952, 42954, 2, -1>>, <<42961, 42961, 1, -1>>,
    <<42967, 42969, 2, -1>>, <<42998, 42998, 1, -1>>, <<43859, 43859, 1, -928>>, <<43888, 43967, 1, -38864>>, <<65345, 65370, 1, -32>>,
    <<66600, 66639, 1, -40>>, <<66776, 66811, 1, -40>>, <<66967, 66977, 1, -39>>, <<66979, 66993, 1, -39>>, <<66995, 67001, 1, -39>>,
    <<67003, 67004, 1, -39>>, <<68800, 68850, 1, -64>>, <<71872, 71903, 1, -32>>, <<93792, 93823, 1, -32>>, <<125218, 125251, 1, -34>>
  >>

\* code points whose title case is more than one code point
TitleExpansions ==
  <<
    <<223, <<83, 115>>>>, <<329, <<700, 78>>>>, <<496, <<74, 780>>>>,
    <<912, <<921, 776, 769>>>>, <<944, <<933, 776, 769>>>>, <<1415, <<1333, 1410>>>>,
    <<7830, <<72, 817>>>>, <<7831, <<84, 776>>>>, <<7832, <<87, 778>>>>,
    <<7833, <<89, 778>>>>, <<7834, <<65, 702>>>>, <<8016, <<933, 787>>>>,
    <<8018, <<933, 787, 768>>>>, <<8020, <<933, 787, 769>>>>, <<8022, <<933, 787, 834>>>>,
    <<8114, <<8122, 837>>>>, <<8116, <<902, 837>>>>, <<8118, <<913, 834>>>>,
    <<8119, <<913, 834, 837>>>>, <<8130, <<8138, 837>>>>, <<8132, <<905, 837>>>>,
    <<8134, <<919, 834>>>>, <<8135, <<919, 834, 837>>>>, <<8146, <<921, 776, 768>>>>,
    <<8147, <<921, 776, 769>>>>, <<8150, <<921, 834>>>>, <<8151, <<921, 776, 834>>>>,
    <<8162, <<933, 776, 768>>>>, <<8163, <<933, 776, 769>>>>, <<8164, <<929, 787>>>>,
    <<8166, <<933, 834>>>>, <<8167, <<933, 776, 834>>>>, <<8178, <<8186, 837>>>>,
    <<8180, <<911, 837>>>>, <<8182, <<937, 834>>>>, <<8183, <<937, 834, 837>>>>,
    <<64256, <<70, 102>>>>, <<64257, <<70, 105>>>>, <<64258, <<70, 108>>>>,
    <<64259, <<70, 102, 105>>>>, <<64260, <<70, 102, 108>>>>, <<64261, <<83, 116>>>>,
    <<64262, <<83, 116>>>>, <<64275, <<1348, 1398>>>>, <<64276, <<1348, 1381>>>>,
    <<64277, <<1348, 1387>>>>, <<64278, <<1358, 1398>>>>, <<64279, <<1348, 1389>>>>
  >>

\* the case-ignorable code points, as spans <<first, last>>
CaseIgnorableSpans ==
  <<
    <<39, 39>>, <<46, 46>>, <<58, 58>>, <<94, 94>>, <<96, 96>>, <<168, 168>>, <<173, 173>>,
    <<175, 175>>, <<180, 180>>, <<183, 184>>, <<688, 879>>, <<884, 885>>, <<890, 890>>, <<900, 901>>,
    <<903, 903>>, <<1155, 1161>>, <<1369, 1369>>, <<1375, 1375>>, <<1425, 1469>>, <<1471, 1471>>, <<1473, 1474>>,
    <<1476, 1477>>, <<1479, 1479>>, <<1524, 1524>>, <<1536, 1541>>, <<1552, 1562>>, <<1564, 1564>>, <<1600, 1600>>,
    <<1611, 1631>>, <<1648, 1648>>, <<1750, 1757>>, <<1759, 1768>>, <<1770, 1773>>, <<1807, 1807>>, <<1809, 1809>>,
    <<1840, 1866>>, <<1958, 1968>>, <<2027, 2037>>, <<2042, 2042>>, <<2045, 2045>>, <<2070, 2093>>, <<2137, 2139>>,
    <<2184, 2184>>, <<2192, 2193>>, <<2200, 2207>>, <<2249, 2306>>, <<2362, 2362>>, <<2364, 2364>>, <<2369, 2376>>,
    <<2381, 2381>>, <<2385, 2391>>, <<2402, 2403>>, <<2417, 2417>>, <<2433, 2433>>, <<2492, 2492>>, <<2497, 2500>>,
    <<2509, 2509>>, <<2530, 2531>>, <<2558, 2558>>, <<2561, 2562>>, <<2620, 2620>>, <<2625, 2626>>, <<2631, 2632>>,
    <<2635, 2637>>, <<2641, 2641>>, <<2672, 2673>>, <<2677, 2677>>, <<2689, 2690>>, <<2748, 2748>>, <<2753, 2757>>,
    <<2759, 2760>>, <<2765, 2765>>, <<2786, 2787>>, <<2810, 2815>>, <<2817, 2817>>, <<2876, 2876>>, <<2879, 2879>>,
    <<2881, 2884>>, <<2893, 2893>>, <<2901, 2902>>, <<2914, 2915>>, <<2946, 2946>>, <<3008, 3008>>, <<3021, 3021>>,
    <<3072, 3072>>, <<3076, 3076>>, <<3132, 3132>>, <<3134, 3136>>, <<3142, 3144>>, <<3146, 3149>>, <<3157, 3158>>,
    <<3170, 3171>>, <<3201, 3201>>, <<3260, 3260>>, <<3263, 3263>>, <<3270, 3270>>, <<3276, 3277>>, <<3298, 3299>>,
    <<3328, 3329>>, <<3387, 3388>>, <<3393, 3396>>, <<3405, 3405>>, <<3426, 3427>>, <<3457, 3457>>, <<3530, 3530>>,
    <<3538, 3540>>, <<3542, 3542>>, <<3633, 3633>>, <<3636, 3642>>, <<3654, 3662>>, <<3761, 3761>>, <<3764, 3772>>,
    <<3782, 3782>>, <<3784, 3789>>, <<3864, 3865>>, <<3893, 3893>>, <<3895, 3895>>, <<3897, 3897>>, <<3953, 3966>>,
    <<3968, 3972>>, <<3974, 3975>>, <<3981, 3991>>, <<3993, 4028>>, <<4038, 4038>>, <<4141, 4144>>, <<4146, 4151>>,
    <<4153, 4154>>, <<4157, 4158>>, <<4184, 4185>>, <<4190, 4192>>, <<4209, 4212>>, <<4226, 4226>>, <<4229, 4230>>,
    <<4237, 4237>>, <<4253, 4253>>, <<4348, 4348>>, <<4957, 4959>>, <<5906, 5908>>, <<5938, 5939>>, <<5970, 5971>>,
    <<6002, 6003>>, <<6068, 6069>>, <<6071, 6077>>, <<6086, 6086>>, <<6089, 6099>>, <<6103, 6103>>, <<6109, 6109>>,
    <<6155, 6159>>, <<6211, 6211>>, <<6277, 6278>>, <<6313, 6313>>, <<6432, 6434>>, <<6439, 6440>>, <<6450, 6450>>,
    <<6457, 6459>>, <<6679, 6680>>, <<6683, 6683>>, <<6742, 6742>>, <<6744, 6750>>, <<6752, 6752>>, <<6754, 6754>>,
    <<6757, 6764>>, <<6771, 6780>>, <<6783, 6783>>, <<6823, 6823>>, <<6832, 6862>>, <<6912, 6915>>, <<6964, 6964>>,
    <<6966, 6970>>, <<6972, 6972>>, <<6978, 6978>>, <<7019, 7027>>, <<7040, 7041>>, <<7074, 7077>>, <<7080, 7081>>,
    <<7083, 7085>>, <<7142, 7142>>, <<7144, 7145>>, <<7149, 7149>>, <<7151, 7153>>, <<7212, 7219>>, <<7222, 7223>>,
    <<7288, 7293>>, <<7376, 7378>>, <<7380, 7392>>, <<7394, 7400>>, <<7405, 7405>>, <<7412, 7412>>, <<7416, 7417>>,
    <<7468, 7530>>, <<7544, 7544>>, <<7579, 7679>>, <<8125, 8125>>, <<8127, 8129>>, <<8141, 8143>>, <<8157, 8159>>,
    <<8173, 8175>>, <<8189, 8190>>, <<8203, 8207>>, <<8216, 8217>>, <<8228, 8228>>, <<8231, 8231>>, <<8234, 8238>>,
    <<8288, 8292>>, <<8294, 8303>>, <<8305, 8305>>, <<8319, 8319>>, <<8336, 8348>>, <<8400, 8432>>, <<11388, 11389>>,
    <<11503, 11505>>, <<11631, 11631>>, <<11647, 11647>>, <<11744, 11775>>, <<11823, 11823>>, <<12293, 12293>>, <<12330, 12333>>,
    <<12337, 12341>>, <<12347, 12347>>, <<12441, 12446>>, <<12540, 12542>>, <<40981, 40981>>, <<42232, 42237>>, <<42508, 42508>>,
    <<42607, 42610>>, <<42612, 42621>>, <<42623, 42623>>, <<42652, 42655>>, <<42736, 42737>>, <<42752, 42785>>, <<42864, 42864>>,
    <<42888, 42890>>, <<42994, 42996>>, <<43000, 43001>>, <<43010, 43010>>, <<43014, 43014>>, <<43019, 43019>>, <<43045, 43046>>,
    <<43052, 43052>>, <<43204, 43205>>, <<43232, 43249>>, <<43263, 43263>>, <<43302, 43309>>, <<43335, 43345>>, <<43392, 43394>>,
    <<43443, 43443>>, <<43446, 43449>>, <<43452, 43453>>, <<43471, 43471>>, <<43493, 43494>>, <<43561, 43566>>, <<43569, 43570>>,
    <<43573, 43574>>, <<43587, 43587>>, <<43596, 43596>>, <<43632, 43632>>, <<43644, 43644>>, <<43696, 43696>>, <<43698, 43700>>,
    <<43703, 43704>>, <<43710, 43711>>, <<43713, 43713>>, <<43741, 43741>>, <<43756, 43757>>, <<43763, 43764>>, <<43766, 43766>>,
    <<43867, 43871>>, <<43881, 43883>>, <<44005, 44005>>, <<44008, 44008>>, <<44013, 44013>>, <<64286, 64286>>, <<64434, 64450>>,
    <<65024, 65039>>, <<65043, 65043>>, <<65056, 65071>>, <<65106, 65106>>, <<65109, 65109>>, <<65279, 65279>>, <<65287, 65287>>,
    <<65294, 65294>>, <<65306, 65306>>, <<65342, 65342>>, <<65344, 65344>>, <<65392, 65392>>, <<65438, 65439>>, <<65507, 65507>>,
    <<65529, 65531>>, <<66045, 66045>>, <<66272, 66272>>, <<66422, 66426>>, <<67456, 67461>>, <<67463, 67504>>, <<67506, 67514>>,
    <<68097, 68099>>, <<68101, 68102>>, <<68108, 68111>>, <<68152, 68154>>, <<68159, 68159>>, <<68325, 68326>>, <<68900, 68903>>,
    <<69291, 69292>>, <<69446, 69456>>, <<69506, 69509>>, <<69633, 69633>>, <<69688, 69702>>, <<69744, 69744>>, <<69747, 69748>>,
    <<69759, 69761>>, <<69811, 69814>>, <<69817, 69818>>, <<69821, 69821>>, <<69826, 69826>>, <<69837, 69837>>, <<69888, 69890>>,
    <<69927, 69931>>, <<69933, 69940>>, <<70003, 70003>>, <<70016, 70017>>, <<70070, 70078>>, <<70089, 70092>>, <<70095, 70095>>,
    <<70191, 70193>>, <<70196, 70196>>, <<70198, 70199>>, <<70206, 70206>>, <<70367, 70367>>, <<70371, 70378>>, <<70400, 70401>>,
    <<70459, 70460>>, <<70464, 70464>>, <<70502, 70508>>, <<70512, 70516>>, <<70712, 70719>>, <<70722, 70724>>, <<70726, 70726>>,
    <<70750, 70750>>, <<70835, 70840>>, <<70842, 70842>>, <<70847, 70848>>, <<70850, 70851>>, <<71090, 71093>>, <<71100, 71101>>,
    <<71103, 71104>>, <<71132, 71133>>, <<71219, 71226>>, <<71229, 71229>>, <<71231, 71232>>, <<71339, 71339>>, <<71341, 71341>>,
    <<71344, 71349>>, <<71351, 71351>>, <<71453, 71455>>, <<71458, 71461>>, <<71463, 71467>>, <<71727, 71735>>, <<71737, 71738>>,
    <<71995, 71996>>, <<71998, 71998>>, <<72003, 72003>>, <<72148, 72151>>, <<72154, 72155>>, <<72160, 72160>>, <<72193, 72202>>,
    <<72243, 72248>>, <<72251, 72254>>, <<72263, 72263>>, <<72273, 72278>>, <<72281, 72283>>, <<72330, 72342>>, <<72344, 72345>>,
    <<72752, 72758>>, <<72760, 72765>>, <<72767, 72767>>, <<72850, 72871>>, <<72874, 72880>>, <<72882, 72883>>, <<72885, 72886>>,
    <<73009, 73014>>, <<73018, 73018>>, <<73020, 73021>>, <<73023, 73029>>, <<73031, 73031>>, <<73104, 73105>>, <<73109, 73109>>,
    <<73111, 73111>>, <<73459, 73460>>, <<78896, 78904>>, <<92912, 92916>>, <<92976, 92982>>, <<92992, 92995>>, <<94031, 94031>>,
    <<94095, 94111>>, <<94176, 94177>>, <<94179, 94180>>, <<110576, 110579>>, <<110581, 110587>>, <<110589, 110590>>, <<113821, 113822>>,
    <<113824, 113827>>, <<118528, 118573>>, <<118576, 118598>>, <<119143, 119145>>, <<119155, 119170>>, <<119173, 119179>>, <<119210, 119213>>,
    <<119362, 119364>>, <<121344, 121398>>, <<121403, 121452>>, <<121461, 121461>>, <<121476, 121476>>, <<121499, 121503>>, <<121505, 121519>>,
    <<122880, 122886>>, <<122888, 122904>>, <<122907, 122913>>, <<122915, 122916>>, <<122918, 122922>>, <<123184, 123197>>, <<123566, 123566>>,
    <<123628, 123631>>, <<125136, 125142>>, <<125252, 125259>>, <<127995, 127999>>, <<917505, 917505>>, <<917536, 917631>>, <<917760, 917999>>
  >>

\* the cased code points that are not case-ignorable, as spans
CasedSpans ==
  <<
    <<65, 90>>, <<97, 122>>, <<170, 170>>, <<181, 181>>, <<186, 186>>, <<192, 214>>, <<216, 246>>,
    <<248, 442>>, <<444, 447>>, <<452, 659>>, <<661, 687>>, <<880, 883>>, <<886, 887>>, <<891, 893>>,
    <<895, 895>>, <<902, 902>>, <<904, 906>>, <<908, 908>>, <<910, 929>>, <<931, 1013>>, <<1015, 1153>>,
    <<1162, 1327>>, <<1329, 1366>>, <<1376, 1416>>, <<4256, 4293>>, <<4295, 4295>>, <<4301, 4301>>, <<4304, 4346>>,
    <<4349, 4351>>, <<5024, 5109>>, <<5112, 5117>>, <<7296, 7304>>, <<7312, 7354>>, <<7357, 7359>>, <<7424, 7467>>,
    <<7531, 7543>>, <<7545, 7578>>, <<7680, 7957>>, <<7960, 7965>>, <<7968, 8005>>, <<8008, 8013>>, <<8016, 8023>>,
    <<8025, 8025>>, <<8027, 8027>>, <<8029, 8029>>, <<8031, 8061>>, <<8064, 8116>>, <<8118, 8124>>, <<8126, 8126>>,
    <<8130, 8132>>, <<8134, 8140>>, <<8144, 8147>>, <<8150, 8155>>, <<8160, 8172>>, <<8178, 8180>>, <<8182, 8188>>,
    <<8450, 8450>>, <<8455, 8455>>, <<8458, 8467>>, <<8469, 8469>>, <<8473, 8477>>, <<8484, 8484>>, <<8486, 8486>>,
    <<8488, 8488>>, <<8490, 8493>>, <<8495, 8500>>, <<8505, 8505>>, <<8508, 8511>>, <<8517, 8521>>, <<8526, 8526>>,
    <<8544, 8575>>, <<8579, 8580>>, <<9398, 9449>>, <<11264, 11387>>, <<11390, 11492>>, <<11499, 11502>>, <<11506, 11507>>,
    <<11520, 11557>>, <<11559, 11559>>, <<11565, 11565>>, <<42560, 42605>>, <<42624, 42651>>, <<42786, 42863>>, <<42865, 42887>>,
    <<42891, 42894>>, <<42896, 42954>>, <<42960, 42961>>, <<42963, 42963>>, <<42965, 42969>>, <<42997, 42998>>, <<43002, 43002>>,
    <<43824, 43866>>, <<43872, 43880>>, <<43888, 43967>>, <<64256, 64262>>, <<64275, 64279>>, <<65313, 65338>>, <<65345, 65370>>,
    <<66560, 66639>>, <<66736, 66771>>, <<66776, 66811>>, <<66928, 66938>>, <<66940, 66954>>, <<66956, 66962>>, <<66964, 66965>>,
    <<66967, 66977>>, <<66979, 66993>>, <<66995, 67001>>, <<67003, 67004>>, <<68736, 68786>>, <<68800, 68850>>, <<71840, 71903>>,
    <<93760, 93823>>, <<119808, 119892>>, <<119894, 119964>>, <<119966, 119967>>, <<119970, 119970>>, <<119973, 119974>>, <<119977, 119980>>,
    <<119982, 119993>>, <<119995, 119995>>, <<119997, 120003>>, <<120005, 120069>>, <<120071, 120074>>, <<120077, 120084>>, <<120086, 120092>>,
    <<120094, 120121>>, <<120123, 120126>>, <<120128, 120132>>, <<120134, 120134>>, <<120138, 120144>>, <<120146, 120485>>, <<120488, 120512>>,
    <<120514, 120538>>, <<120540, 120570>>, <<120572, 120596>>, <<120598, 120628>>, <<120630, 120654>>, <<120656, 120686>>, <<120688, 120712>>,
    <<120714, 120744>>, <<120746, 120770>>, <<120772, 120779>>, <<122624, 122633>>, <<122635, 122654>>, <<125184, 125251>>, <<127280, 127305>>,
    <<127312, 127337>>, <<127344, 127369>>
  >>

InRun(c, run) == c >= run[1] /\ c <= run[2] /\ (c - run[1]) % run[3] = 0

\* the image of c under a mapping given as runs (c when it is in none)
RunMap(runs, c) ==
    IF \E r \in DOMAIN runs : InRun(c, runs[r])
    THEN c + runs[CHOOSE r \in DOMAIN runs : InRun(c, runs[r])][4]
    ELSE c

InSpans(spans, c) == \E r \in DOMAIN spans : c >= spans[r][1] /\ c <= spans[r][2]

\* the full mapping of one code point: a sequence of code points
FullMap(expansions, runs, c) ==
    IF \E e \in DOMAIN expansions : expansions[e][1] = c
    THEN expansions[CHOOSE e \in DOMAIN expansions : expansions[e][1] = c][2]
    ELSE <<RunMap(runs, c)>>

\* the lower case of one code point, out of context
LowerChar(c) ==
    IF c < 128 THEN <<AsciiLower(c)>> ELSE FullMap(LowerExpansions, LowerRuns, c)

\* the title case of one code point
TitleChar(c) ==
    IF c < 128 THEN <<AsciiUpper(c)>> ELSE FullMap(TitleExpansions, TitleRuns, c)

\* the capital sigma (931) at s[i] ends a word: the nearest code point before
\* it that is not case-ignorable is cased, and the nearest one after it that
\* is not case-ignorable, if any, is not cased
FinalSigma(s, i) ==
    LET before == {j \in 1..(i - 1) : ~InSpans(CaseIgnorableSpans, s[j])}
        after  == {j \in (i + 1)..Len(s) : ~InSpans(CaseIgnorableSpans, s[j])}
    IN  /\ before # {}
        /\ InSpans(CasedSpans, s[CHOOSE j \in before : \A k \in before : k <= j])
        /\ \/ after = {}
           \/ ~InSpans(CasedSpans, s[CHOOSE j \in after : \A k \in after : j <= k])

\* the lower case of s[i] within s
LowerAt(s, i) ==
    IF s[i] = 931
    THEN IF FinalSigma(s, i) THEN <<962>> ELSE <<963>>
    ELSE LowerChar(s[i])

\* the concatenation of a sequence of sequences
RECURSIVE Flatten(_)
Flatten(ss) == IF ss = <<>> THEN <<>> ELSE Head(ss) \o Flatten(Tail(ss))

\* str.lower()
str_lower(s) == Flatten([i \in 1..Len(s) |-> LowerAt(s, i)])

\* str.capitalize(): first code point title-cased, the rest lower-cased
str_capitalize(s) ==
    Flatten([i \in 1..Len(s) |-> IF i = 1 THEN TitleChar(s[1]) ELSE LowerAt(s, i)])

(***************************************************************************)
(* Outcome of a call: a returned value of some kind, or an exception.      *)
(***************************************************************************)
NoValue == <<>>

Return(kind, val) == [exc |-> "None", detail |-> "", kind |-> kind, val |-> val]

Raise(exc, detail) == [exc |-> exc, detail |-> detail, kind |-> "none", val |-> NoValue]

(***************************************************************************)
(* ComputeUsageRecord                                                      *)
(***************************************************************************)
\* fields of the UsageAttributes namedtuple, in declaration order
UsageAttributesFields ==
    <<"node_count", "cpu_core_count", "job_name", "memory", "queue">>

\* UsageAttributes(node_count, cpu_core_count, job_name, memory, queue)
UsageAttributes(node_count, cpu_core_count, job_name, memory, queue) ==
    [node_count |-> node_count, cpu_core_count |-> cpu_core_count,
     job_name |-> job_name, memory |-> memory, queue |-> queue]

\* keyword-only parameters of ComputeUsageRecord.__init__
RequiredKwargs == {"charge", "end_time", "local_project_id", "local_record_id",
                   "resource", "start_time", "submit_time", "username",
                   "node_count"}

OptionalKwargs == {"parent_record_id", "queue", "cpu_core_count", "job_name",
                   "memory"}

\* a keyword argument, or its default None
Kwarg(kw, name) == IF name \in DOMAIN kw THEN kw[name] ELSE None

\* ComputeUsageRecord.__init__(self, *, ...): the object's attributes.
\* kw holds every required keyword.
RecordInit(kw) ==
    [attributes |-> UsageAttributes(kw["node_count"],
                                    Kwarg(kw, "cpu_core_count"),
                                    Kwarg(kw, "job_name"),
                                    Kwarg(kw, "memory"),
                                    Kwarg(kw, "queue")),
     parent_record_id |-> Tuple1(Kwarg(kw, "parent_record_id")),
     charge |-> kw["charge"],
     end_time |-> kw["end_time"],
     local_project_id |-> kw["local_project_id"],
     local_record_id |-> kw["local_record_id"],
     resource |-> kw["resource"],
     start_time |-> kw["start_time"],
     submit_time |-> kw["submit_time"],
     username |-> kw["username"]]

\* the subscripted top-level keys of from_dict, in evaluation order
FromDictKeys == <<"Username", "LocalProjectID", "LocalRecordID", "Resource",
                  "SubmitTime", "StartTime", "EndTime", "Charge", "Attributes">>

\* the first subscript of from_dict that finds no key ("" when none)
FirstMissingKey(input_dict) ==
    LET missing == {i \in DOMAIN FromDictKeys : FromDictKeys[i] \notin DOMAIN input_dict}
    IN  IF missing # {}
        THEN FromDictKeys[CHOOSE i \in missing : \A j \in missing : i <= j]
        ELSE IF "NodeCount" \notin DOMAIN input_dict["Attributes"]
        THEN "NodeCount"
        ELSE ""

\* from_dict reading NodeCount with .get(), as it reads the optional keys
RecordFromDict_NodeCountOptional(input_dict) ==
    LET missing == {i \in DOMAIN FromDictKeys : FromDictKeys[i] \notin DOMAIN input_dict}
    IN  IF missing # {}
        THEN Raise("KeyError", FromDictKeys[CHOOSE i \in missing : \A j \in missing : i <= j])
        ELSE Return("record", RecordInit(
               [username |-> input_dict["Username"],
                local_project_id |-> input_dict["LocalProjectID"],
                local_record_id |-> input_dict["LocalRecordID"],
                resource |-> input_dict["Resource"],
                submit_time |-> input_dict["SubmitTime"],
                start_time |-> input_dict["StartTime"],
                end_time |-> input_dict["EndTime"],
                charge |-> input_dict["Charge"],
                node_count |-> DictGet(input_dict["Attributes"], "NodeCount"),
                cpu_core_count |-> DictGet(input_dict["Attributes"], "CpuCoreCount"),
                job_name |-> DictGet(input_dict["Attributes"], "JobName"),
                memory |-> DictGet(input_dict["Attributes"], "Memory"),
                queue |-> DictGet(input_dict["Attributes"], "Queue"),
                parent_record_id |-> DictGet(input_dict, "ParentRecordID")]))

\* ComputeUsageRecord.from_dict(input_dict)
RecordFromDict(input_dict) ==
    IF FirstMissingKey(input_dict) # ""
    THEN Raise("KeyError", FirstMissingKey(input_dict))
    ELSE Return("record", RecordInit(
           [username |-> input_dict["Username"],
            local_project_id |-> input_dict["LocalProjectID"],
            local_record_id |-> input_dict["LocalRecordID"],
            resource |-> input_dict["Resource"],
            submit_time |-> input_dict["SubmitTime"],
            start_time |-> input_dict["StartTime"],
            end_time |-> input_dict["EndTime"],
            charge |-> input_dict["Charge"],
            node_count |-> input_dict["Attributes"]["NodeCount"],
            cpu_core_count |-> DictGet(input_dict["Attributes"], "CpuCoreCount"),
            job_name |-> DictGet(input_dict["Attributes"], "JobName"),
            memory |-> DictGet(input_dict["Attributes"], "Memory"),
            queue |-> DictGet(input_dict["Attributes"], "Queue"),
            parent_record_id |-> DictGet(input_dict, "ParentRecordID")]))

\* the Attributes sub-dictionary of as_dict: the namedtuple's own field
\* names, for the fields that are not None
RecordAttributesDict(self) ==
    LET set == {i \in DOMAIN UsageAttributesFields :
                   self.attributes[UsageAttributesFields[i]] # None}
    IN  [k \in {UsageAttributesFields[i] : i \in set} |-> self.attributes[k]]

\* ComputeUsageRecord.as_dict
RecordAsDict(self) ==
    LET d == ("Username" :> self.username)
             @@ ("LocalProjectID" :> self.local_project_id)
             @@ ("LocalRecordID" :> self.local_record_id)
             @@ ("Resource" :> self.resource)
             @@ ("SubmitTime" :> self.submit_time)
             @@ ("StartTime" :> self.start_time)
             @@ ("EndTime" :> self.end_time)
             @@ ("Charge" :> self.charge)
             @@ ("Attributes" :> RecordAttributesDict(self))
    IN  IF self.parent_record_id # None
        THEN d @@ ("ParentRecordID" :> self.parent_record_id)
        ELSE d

(***************************************************************************)
(* json.dumps / json.loads on the values above.  A JSON text is either     *)
(* malformed or a document; in a document tuples and lists are both        *)
(* arrays, and loads returns every array as a list.                        *)
(***************************************************************************)
JsonEncodeValue(v) == [v EXCEPT !.wrap = [i \in 1..Len(v.wrap) |-> "array"]]

JsonDecodeValue(v) == [v EXCEPT !.wrap = [i \in 1..Len(v.wrap) |-> "list"]]

JsonEncodeRecordDict(d) ==
    [k \in DOMAIN d |->
        IF k = "Attributes"
        THEN [a \in DOMAIN d[k] |-> JsonEncodeValue(d[k][a])]
        ELSE JsonEncodeValue(d[k])]

JsonDecodeRecordDict(doc) ==
    [k \in DOMAIN doc |->
        IF k = "Attributes"
        THEN [a \in DOMAIN doc[k] |-> JsonDecodeValue(doc[k][a])]
        ELSE JsonDecodeValue(doc[k])]

JsonText(doc) == [wellformed |-> TRUE, doc |-> doc]

MalformedJson == [wellformed |-> FALSE, doc |-> NoValue]

\* ComputeUsageRecord.as_json
RecordAsJson(self) ==
    Return("record_json", JsonText(JsonEncodeRecordDict(RecordAsDict(self))))

\* ComputeUsageRecord.from_json(input_json)
RecordFromJson(input_json) ==
    IF ~input_json.wellformed
    THEN Raise("JSONDecodeError", "")
    ELSE RecordFromDict(JsonDecodeRecordDict(input_json.doc))

(***************************************************************************)
(* UsageMessage                                                            *)
(***************************************************************************)
\* 'Compute'
Chars_Compute == <<67, 111, 109, 112, 117, 116, 101>>

\* 'Storage'
Chars_Storage == <<83, 116, 111, 114, 97, 103, 101>>

\* 'Adjustment'
Chars_Adjustment == <<65, 100, 106, 117, 115, 116, 109, 101, 110, 116>>

\* ['Compute', 'Storage', 'Adjustment']
ValidUsageTypes == {Chars_Compute, Chars_Storage, Chars_Adjustment}

\* usage_type.lower().capitalize()
NormalizeUsageType(usage_type) == str_capitalize(str_lower(usage_type))

\* 'Invalid usage type ' of f'Invalid usage type {ut}'
InvalidUsageTypeText == <<73, 110, 118, 97, 108, 105, 100, 32, 117, 115, 97, 103, 101, 32, 116, 121, 112, 101, 32>>

\* __init__ accepting any usage type that starts with one of the three words
MessageInit_PrefixMatch(usage_type, records) ==
    LET ut == NormalizeUsageType(usage_type)
    IN  IF \E w \in ValidUsageTypes :
               Len(ut) >= Len(w) /\ SubSeq(ut, 1, Len(w)) = w
        THEN Return("message", [records |-> records])
        ELSE Raise("UsageMessageException", InvalidUsageTypeText \o ut)

\* UsageMessage.__init__(self, usage_type, records): the object's attributes,
\* or UsageMessageException
MessageInit(usage_type, records) ==
    IF NormalizeUsageType(usage_type) \notin ValidUsageTypes
    THEN Raise("UsageMessageException",
               InvalidUsageTypeText \o NormalizeUsageType(usage_type))
    ELSE Return("message", [records |-> records])

\* names bound at module level when a method body runs
ModuleGlobals == {"json", "namedtuple", "UsageAttributes", "ComputeUsageRecord",
                  "UsageMessageException", "UsageMessage"}

\* [UsageRecord.from_dict(d) for d in input_dict['Records']]: the list, or
\* the first exception raised while building it
RECURSIVE RecordsFromDicts(_)
RecordsFromDicts(ds) ==
    IF ds = <<>>
    THEN Return("records", <<>>)
    ELSE LET first == IF "UsageRecord" \notin ModuleGlobals
                      THEN Raise("NameError", "UsageRecord")
                      ELSE RecordFromDict(Head(ds))
         IN  IF first.exc # "None"
             THEN first
             ELSE LET rest == RecordsFromDicts(Tail(ds))
                  IN  IF rest.exc # "None"
                      THEN rest
                      ELSE Return("records", <<first.val>> \o rest.val)

\* UsageMessage.from_dict(input_dict)
MessageFromDict(input_dict) ==
    IF "UsageType" \notin DOMAIN input_dict
    THEN Raise("KeyError", "UsageType")
    ELSE IF "Records" \notin DOMAIN input_dict
    THEN Raise("KeyError", "Records")
    ELSE LET records == RecordsFromDicts(input_dict["Records"])
         IN  IF records.exc # "None"
             THEN records
             ELSE MessageInit(input_dict["UsageType"], records.val)

\* UsageMessage.as_dict
MessageAsDict(self) ==
    IF "usage_type" \notin DOMAIN self
    THEN Raise("AttributeError", "usage_type")
    ELSE Return("message_dict",
                ("UsageType" :> self.usage_type)
                @@ ("Records" :> [i \in 1..Len(self.records) |->
                                     RecordAsDict(self.records[i])]))

JsonEncodeMessageDict(d) ==
    [k \in DOMAIN d |->
        IF k = "Records"
        THEN [i \in 1..Len(d[k]) |-> JsonEncodeRecordDict(d[k][i])]
        ELSE d[k]]

JsonDecodeMessageDict(doc) ==
    [k \in DOMAIN doc |->
        IF k = "Records"
        THEN [i \in 1..Len(doc[k]) |-> JsonDecodeRecordDict(doc[k][i])]
        ELSE doc[k]]

\* UsageMessage.as_json
MessageAsJson(self) ==
    IF MessageAsDict(self).exc # "None"
    THEN MessageAsDict(self)
    ELSE Return("message_json",
                JsonText(JsonEncodeMessageDict(MessageAsDict(self).val)))

\* UsageMessage.from_json(input_json)
MessageFromJson(input_json) ==
    IF ~input_json.wellformed
    THEN Raise("JSONDecodeError", "")
    ELSE MessageFromDict(JsonDecodeMessageDict(input_json.doc))

(***************************************************************************)
(* UsageMessage._chunked: a generator.  Its frame holds self, chunk_size,  *)
(* the loop index i and the stop of range(0, len(self.records),            *)
(* chunk_size), which is evaluated when the loop is entered.               *)
(***************************************************************************)
NoGenerator ==
    [state |-> "none", self |-> [records |-> <<>>], chunk_size |-> 0,
     i |-> 0, stop |-> 0]

\* calling _chunked(chunk_size) runs none of its body
Chunked(self, chunk_size) ==
    [state |-> "created", self |-> self, chunk_size |-> chunk_size,
     i |-> 0, stop |-> 0]

Min(a, b) == IF a <= b THEN a ELSE b

\* a slice bound b within a list of length n: counted from the end when
\* negative, clamped to the list
SliceBound(b, n) ==
    IF b < 0 THEN (IF b + n < 0 THEN 0 ELSE b + n) ELSE Min(b, n)

\* self.records[i:i+chunk_size]
Slice(records, i, chunk_size) ==
    LET from == SliceBound(i, Len(records))
        to   == SliceBound(i + chunk_size, Len(records))
    IN  IF from < to THEN SubSeq(records, from + 1, to) ELSE <<>>

\* range(0, stop, step) has the value i (step is not zero)
InRange(i, stop, step) == IF step > 0 THEN i < stop ELSE i > stop

\* range(0, len(self.records), 0)
RangeStepZero == Raise("ValueError", "range() arg 3 must not be zero")

\* _chunked looping over range(0, len(self.records) + 1, chunk_size)
GenStep_InclusiveStop(g) ==
    IF g.state = "closed"
    THEN [gen |-> g, out |-> Raise("StopIteration", "")]
    ELSE IF g.state = "created" /\ g.chunk_size = 0
    THEN [gen |-> [g EXCEPT !.state = "closed"], out |-> RangeStepZero]
    ELSE LET stop == IF g.state = "created" THEN Len(g.self.records) + 1 ELSE g.stop
             i    == IF g.state = "created" THEN 0 ELSE g.i + g.chunk_size
             at   == [g EXCEPT !.i = i, !.stop = stop]
         IN  IF ~InRange(i, stop, g.chunk_size)
             THEN [gen |-> [at EXCEPT !.state = "closed"],
                   out |-> Raise("StopIteration", "")]
             ELSE IF "usage_type" \notin DOMAIN g.self
             THEN [gen |-> [at EXCEPT !.state = "closed"],
                   out |-> Raise("AttributeError", "usage_type")]
             ELSE LET m == MessageInit(g.self.usage_type,
                                       Slice(g.self.records, i, g.chunk_size))
                  IN  IF m.exc # "None"
                      THEN [gen |-> [at EXCEPT !.state = "closed"], out |-> m]
                      ELSE [gen |-> [at EXCEPT !.state = "suspended"], out |-> m]

\* _chunked taking each chunk out of self.records (del self.records[:chunk_size])
GenStep_DrainsSource(g) ==
    IF g.state = "closed"
    THEN [gen |-> g, out |-> Raise("StopIteration", "")]
    ELSE IF g.state = "created" /\ g.chunk_size = 0
    THEN [gen |-> [g EXCEPT !.state = "closed"], out |-> RangeStepZero]
    ELSE LET stop == IF g.state = "created" THEN Len(g.self.records) ELSE g.stop
             i    == IF g.state = "created" THEN 0 ELSE g.i + g.chunk_size
             rest == SubSeq(g.self.records, Min(g.chunk_size, Len(g.self.records)) + 1,
                            Len(g.self.records))
             at   == [g EXCEPT !.i = i, !.stop = stop, !.self.records = rest]
         IN  IF ~InRange(i, stop, g.chunk_size)
             THEN [gen |-> [g EXCEPT !.i = i, !.stop = stop, !.state = "closed"],
                   out |-> Raise("StopIteration", "")]
             ELSE IF "usage_type" \notin DOMAIN g.self
             THEN [gen |-> [at EXCEPT !.state = "closed"],
                   out |-> Raise("AttributeError", "usage_type")]
             ELSE LET m == MessageInit(g.self.usage_type,
                                       Slice(g.self.records, 0, g.chunk_size))
                  IN  IF m.exc # "None"
                      THEN [gen |-> [at EXCEPT !.state = "closed"], out |-> m]
                      ELSE [gen |-> [at EXCEPT !.state = "suspended"], out |-> m]

\* one next() on the generator frame g: the frame afterwards and the outcome
\* (a yielded UsageMessage, StopIteration, or an exception of the body)
GenStep(g) ==
    IF g.state = "closed"
    THEN [gen |-> g, out |-> Raise("StopIteration", "")]
    ELSE IF g.state = "created" /\ g.chunk_size = 0
    THEN [gen |-> [g EXCEPT !.state = "closed"], out |-> RangeStepZero]
    ELSE LET stop == IF g.state = "created" THEN Len(g.self.records) ELSE g.stop
             i    == IF g.state = "created" THEN 0 ELSE g.i + g.chunk_size
             at   == [g EXCEPT !.i = i, !.stop = stop]
         IN  IF ~InRange(i, stop, g.chunk_size)
             THEN [gen |-> [at EXCEPT !.state = "closed"],
                   out |-> Raise("StopIteration", "")]
             ELSE IF "usage_type" \notin DOMAIN g.self
             THEN [gen |-> [at EXCEPT !.state = "closed"],
                   out |-> Raise("AttributeError", "usage_type")]
             ELSE LET m == MessageInit(g.self.usage_type,
                                       Slice(g.self.records, i, g.chunk_size))
                  IN  IF m.exc # "None"
                      THEN [gen |-> [at EXCEPT !.state = "closed"], out |-> m]
                      ELSE [gen |-> [at EXCEPT !.state = "suspended"], out |-> m]

(***************************************************************************)
(* Inputs of a session's first call.                                       *)
(***************************************************************************)
\* the i-th sample value of a field
Sample(field, i) == Str(field \o ToString(i))

\* keyword arguments: every required keyword and the optional ones in opts
SampleKwargs(opts, i) == [name \in RequiredKwargs \cup opts |-> Sample(name, i)]

\* the optional keywords of the i-th record of the pool
PoolOptionals(i) ==
    IF i % 3 = 1 THEN OptionalKwargs
    ELSE IF i % 3 = 2 THEN {}
    ELSE {"queue", "parent_record_id"}

\* the records a caller puts into a message: i-th record of the pool
PoolRecord(i) == RecordInit(SampleKwargs(PoolOptionals(i), i))

PoolRecords(n) == [i \in 1..n |-> PoolRecord(i)]

TopLevelKeys == {"Username", "LocalProjectID", "LocalRecordID", "Resource",
                 "SubmitTime", "StartTime", "EndTime", "Charge"}

AttributeKeys == {"NodeCount", "CpuCoreCount", "JobName", "Memory", "Queue"}

\* a wire dictionary with the top-level keys in top, and, when it has
\* Attributes, the attribute keys in attrs
SampleRecordDict(top, attrs, i) ==
    [k \in top \ {"Attributes"} |-> Sample(k, i)]
    @@ (IF "Attributes" \in top
        THEN "Attributes" :> [a \in attrs |-> Sample(a, i)]
        ELSE EmptyDict)

AllTopKeys == TopLevelKeys \cup {"Attributes", "ParentRecordID"}

\* wire dictionaries a message is read from: complete, minimal, and two
\* that lack a required key
PoolRecordDict(j, i) ==
    CASE j = 1 -> SampleRecordDict(AllTopKeys, AttributeKeys, i)
      [] j = 2 -> SampleRecordDict(AllTopKeys \ {"ParentRecordID"}, {"NodeCount"}, i)
      [] j = 3 -> SampleRecordDict(AllTopKeys \ {"Charge"}, AttributeKeys, i)
      [] OTHER -> SampleRecordDict(AllTopKeys, AttributeKeys \ {"NodeCount"}, i)

PoolRecordDictKinds == 1..4

\* every spelling of an ASCII word that differs from it in letter case only
CasePermutations(word) ==
    { [i \in 1..Len(word) |->
          IF i \in up THEN AsciiUpper(word[i]) ELSE AsciiLower(word[i])] :
      up \in SUBSET (1..Len(word)) }

\* '', 'Bogus', 'comput', 'computer', 'compute ', ' storage', 'adjustments',
\* 'STORAG3'
InvalidUsageTypeInputs ==
    { <<>>, <<66, 111, 103, 117, 115>>, <<99, 111, 109, 112, 117, 116>>,
      <<99, 111, 109, 112, 117, 116, 101, 114>>, <<99, 111, 109, 112, 117, 116, 101, 32>>,
      <<32, 115, 116, 111, 114, 97, 103, 101>>,
      <<97, 100, 106, 117, 115, 116, 109, 101, 110, 116, 115>>,
      <<83, 84, 79, 82, 65, 71, 51>> }

\* spellings with letters outside ASCII: long s (383) and the ligatures
\* long-s-t (64261) and st (64262) for the S / St of Storage, long s inside
\* Adjustment, Kelvin sign (8490), sharp s (223), dotted capital I (304),
\* capital sigma (931) and E acute (201)
NonAsciiUsageTypeInputs ==
    { <<383, 116, 111, 114, 97, 103, 101>>, <<383, 84, 79, 82, 65, 71, 69>>,
      <<64261, 111, 114, 97, 103, 101>>, <<64262, 79, 82, 65, 71, 69>>,
      <<97, 100, 106, 117, 383, 116, 109, 101, 110, 116>>, <<8490, 111, 109, 112, 117, 116, 101>>,
      <<223, 116, 111, 114, 97, 103, 101>>, <<304, 99, 111, 109, 112, 117, 116, 101>>,
      <<67, 79, 77, 80, 85, 84, 69, 931>>, <<67, 111, 109, 112, 117, 116, 201>> }

UsageTypeInputs ==
    CasePermutations(Chars_Compute) \cup CasePermutations(Chars_Storage)
    \cup CasePermutations(Chars_Adjustment) \cup InvalidUsageTypeInputs
    \cup NonAsciiUsageTypeInputs

\* usage types of the wire dictionaries a message is read from:
\* 'compute', 'STORAGE', 'Bogus', and 'Storage' spelt with a long s
WireUsageTypes ==
    { <<99, 111, 109, 112, 117, 116, 101>>, <<83, 84, 79, 82, 65, 71, 69>>,
      <<66, 111, 103, 117, 115>>, <<383, 116, 111, 114, 97, 103, 101>> }

\* chunk sizes: negative, zero, small, and the default
ChunkSizes == ((-1)..MaxChunkSize) \cup {DefaultChunkSize}

\* a wire dictionary of a message: with or without UsageType and Records
SampleMessageDict(hasType, ut, hasRecords, kinds) ==
    (IF hasType THEN "UsageType" :> ut ELSE EmptyDict)
    @@ (IF hasRecords
        THEN "Records" :> [i \in 1..Len(kinds) |-> PoolRecordDict(kinds[i], i)]
        ELSE EmptyDict)

KindSequences == UNION { [1..n -> PoolRecordDictKinds] : n \in 0..MaxRecords }

(***************************************************************************)
(* Session: the pipeline of calls.                                         *)
(***************************************************************************)
Call(op, arg, outcome) ==
    [op |-> op, arg |-> arg, exc |-> outcome.exc, detail |-> outcome.detail,
     kind |-> outcome.kind, val |-> outcome.val]

Last == calls[Len(calls)]

\* the session has begun and its last call returned a value of this kind
Holding(kind) ==
    /\ calls # <<>>
    /\ Len(calls) < MaxCalls
    /\ Last.exc = "None"
    /\ Last.kind = kind

Do(op, arg, outcome) ==
    /\ calls' = Append(calls, Call(op, arg, outcome))
    /\ UNCHANGED gen

Init ==
    /\ calls = <<>>
    /\ gen = NoGenerator

\* the arguments a call can take: a fresh input when the session begins,
\* afterwards the value the last call returned, if it is of the right kind
Arguments(kind, fresh) ==
    IF calls = <<>> THEN fresh
    ELSE IF Holding(kind) THEN {Last.val}
    ELSE {}

FreshKwargs == {SampleKwargs(opts, 1) : opts \in SUBSET OptionalKwargs}

FreshRecordDicts ==
    {SampleRecordDict(top, attrs, 1) :
        top \in SUBSET AllTopKeys, attrs \in SUBSET AttributeKeys}

FreshRecordJson ==
    {JsonText(JsonEncodeRecordDict(PoolRecordDict(j, 1))) : j \in PoolRecordDictKinds}
    \cup {MalformedJson}

FreshMessageArgs ==
    {[usage_type |-> ut, records |-> PoolRecords(n)] :
        ut \in UsageTypeInputs, n \in 0..MaxRecords}

FreshMessageDicts ==
    {SampleMessageDict(hasType, ut, hasRecords, kinds) :
        hasType \in BOOLEAN, ut \in WireUsageTypes,
        hasRecords \in BOOLEAN, kinds \in KindSequences}

FreshMessageJson ==
    {JsonText(JsonEncodeMessageDict(SampleMessageDict(TRUE, ut, TRUE, kinds))) :
        ut \in WireUsageTypes, kinds \in KindSequences}
    \cup {MalformedJson}

\* ComputeUsageRecord(**kw)
NewRecord ==
    /\ calls = <<>>
    /\ \E kw \in FreshKwargs :
         Do("ComputeUsageRecord", kw, Return("record", RecordInit(kw)))

\* ComputeUsageRecord.from_dict(input_dict)
RecordFromDictCall ==
    \E d \in Arguments("record_dict", FreshRecordDicts) :
        Do("ComputeUsageRecord.from_dict", d, RecordFromDict(d))

\* ComputeUsageRecord.from_json(input_json)
RecordFromJsonCall ==
    \E text \in Arguments("record_json", FreshRecordJson) :
        Do("ComputeUsageRecord.from_json", text, RecordFromJson(text))

\* record.as_dict
RecordAsDictCall ==
    /\ Holding("record")
    /\ Do("ComputeUsageRecord.as_dict", Last.val,
          Return("record_dict", RecordAsDict(Last.val)))

\* record.as_json
RecordAsJsonCall ==
    /\ Holding("record")
    /\ Do("ComputeUsageRecord.as_json", Last.val, RecordAsJson(Last.val))

\* UsageMessage(usage_type, records)
NewMessage ==
    /\ calls = <<>>
    /\ \E a \in FreshMessageArgs :
         Do("UsageMessage", a, MessageInit(a.usage_type, a.records))

\* UsageMessage.from_dict(input_dict)
MessageFromDictCall ==
    \E d \in Arguments("message_dict", FreshMessageDicts) :
        Do("UsageMessage.from_dict", d, MessageFromDict(d))

\* UsageMessage.from_json(input_json)
MessageFromJsonCall ==
    \E text \in Arguments("message_json", FreshMessageJson) :
        Do("UsageMessage.from_json", text, MessageFromJson(text))

\* message.as_dict
MessageAsDictCall ==
    /\ Holding("message")
    /\ Do("UsageMessage.as_dict", Last.val, MessageAsDict(Last.val))

\* message.as_json
MessageAsJsonCall ==
    /\ Holding("message")
    /\ Do("UsageMessage.as_json", Last.val, MessageAsJson(Last.val))

\* message._chunked(chunk_size): a new generator
ChunkedCall ==
    /\ Holding("message")
    /\ gen.state = "none"
    /\ \E chunk_size \in ChunkSizes :
         /\ gen' = Chunked(Last.val, chunk_size)
         /\ calls' = Append(calls, Call("UsageMessage._chunked",
                                        [self |-> Last.val, chunk_size |-> chunk_size],
                                        Return("generator", "generator")))

\* next(generator)
NextCall ==
    /\ gen.state # "none"
    /\ Len(calls) < MaxCalls
    /\ gen' = GenStep(gen).gen
    /\ calls' = Append(calls, Call("next", "generator", GenStep(gen).out))

Next ==
    \/ NewRecord
    \/ RecordFromDictCall
    \/ RecordFromJsonCall
    \/ RecordAsDictCall
    \/ RecordAsJsonCall
    \/ NewMessage
    \/ MessageFromDictCall
    \/ MessageFromJsonCall
    \/ MessageAsDictCall
    \/ MessageAsJsonCall
    \/ ChunkedCall
    \/ NextCall

Spec == Init /\ [][Next]_vars

(***************************************************************************)
(* Properties                                                              *)
(***************************************************************************)
\* positions of the calls of an operation
CallsOf(op) == {i \in DOMAIN calls : calls[i].op = op}

\* a wire dictionary that has every key from_dict subscripts
ConformsToSchema(d) ==
    /\ TopLevelKeys \cup {"Attributes"} \subseteq DOMAIN d
    /\ "NodeCount" \in DOMAIN d["Attributes"]

\* the message _chunked was called on, as it was at that call, and the
\* chunk size passed
ChunkedArg == calls[CHOOSE c \in CallsOf("UsageMessage._chunked") : TRUE].arg

\* the positions of the next() calls, and how many of them come up to i
NextCalls == CallsOf("next")

NextIndex(i) == Cardinality({j \in NextCalls : j <= i})

\* ceil(n / k)
CeilDiv(n, k) == (n + k - 1) \div k

\* C1: for every case permutation of "Compute", "Storage" or "Adjustment" and
\* every record sequence, UsageMessage(usage_type, records) returns a message
\* whose usage_type is the canonical capitalized word.
C1_CasePermutationNormalized ==
    \A i \in CallsOf("UsageMessage") :
        \A w \in ValidUsageTypes :
            calls[i].arg.usage_type \in CasePermutations(w) =>
                /\ calls[i].exc = "None"
                /\ "usage_type" \in DOMAIN calls[i].val
                /\ calls[i].val.usage_type = w

\* C2: for every usage type whose lower().capitalize() is none of the three
\* words, UsageMessage(usage_type, records) raises UsageMessageException and
\* returns no message.
C2_InvalidUsageTypeRejected ==
    \A i \in CallsOf("UsageMessage") :
        NormalizeUsageType(calls[i].arg.usage_type) \notin ValidUsageTypes =>
            /\ calls[i].exc = "UsageMessageException"
            /\ calls[i].kind = "none"

C2_Witness ==
    \E i \in CallsOf("UsageMessage") :
        /\ calls[i].arg.usage_type = <<66, 111, 103, 117, 115>>
        /\ Len(calls[i].arg.records) > 0
        /\ calls[i].exc = "UsageMessageException"

\* C3: over a message of n >= 1 records with chunk size k >= 1, the j-th next()
\* yields, for j <= ceil(n/k), a UsageMessage of the source's usage_type
\* wrapping records (j-1)k+1 .. min(jk, n) of the source, and every later
\* next() ends the iteration: ceil(n/k) chunks, all but the last of k
\* records, concatenating to the source's records.
C3_ChunksPartitionRecords ==
    \A i \in NextCalls :
        LET n == Len(ChunkedArg.self.records)
            k == ChunkedArg.chunk_size
            j == NextIndex(i)
        IN  (n >= 1 /\ k >= 1) =>
              IF j <= CeilDiv(n, k)
              THEN /\ calls[i].exc = "None"
                   /\ calls[i].kind = "message"
                   /\ calls[i].val.records =
                        SubSeq(ChunkedArg.self.records, (j - 1) * k + 1, Min(j * k, n))
                   /\ "usage_type" \in DOMAIN calls[i].val
                   /\ calls[i].val.usage_type = ChunkedArg.self.usage_type
              ELSE calls[i].exc = "StopIteration"

\* C4: over a message of zero records, with any chunk size >= 1, every next()
\* ends the iteration: no UsageMessage is yielded and no error is raised.
C4_NoRecordsNoChunks ==
    \A i \in NextCalls :
        (Len(ChunkedArg.self.records) = 0 /\ ChunkedArg.chunk_size >= 1) =>
            /\ calls[i].exc = "StopIteration"
            /\ calls[i].kind = "none"

C4_Witness ==
    /\ NextCalls # {}
    /\ Len(ChunkedArg.self.records) = 0
    /\ ChunkedArg.chunk_size = 1
    /\ gen.state = "closed"
    /\ \A i \in NextCalls : calls[i].exc = "StopIteration"

\* C5: for a wire dictionary d that conforms to the schema, the as_dict of
\* from_dict(d) has d's values under the eight top-level keys, and its
\* Attributes has exactly the keys of d's Attributes, with d's values.
C5_FromDictAsDictPreserves ==
    \A i \in CallsOf("ComputeUsageRecord.as_dict") :
        (/\ i > 1
         /\ calls[i - 1].op = "ComputeUsageRecord.from_dict"
         /\ ConformsToSchema(calls[i - 1].arg)) =>
            LET d   == calls[i - 1].arg
                out == calls[i].val
            IN  /\ calls[i].exc = "None"
                /\ \A k \in TopLevelKeys : k \in DOMAIN out /\ out[k] = d[k]
                /\ "Attributes" \in DOMAIN out
                /\ DOMAIN out["Attributes"] = DOMAIN d["Attributes"]
                /\ \A a \in DOMAIN d["Attributes"] :
                       out["Attributes"][a] = d["Attributes"][a]

\* C6: as_dict has the key ParentRecordID exactly when a parent_record_id
\* was supplied at construction, and then its value is the supplied value.
C6_ParentRecordIdOnlyIfSupplied ==
    \A i \in CallsOf("ComputeUsageRecord.as_dict") :
        /\ (i > 1 /\ calls[i - 1].op = "ComputeUsageRecord") =>
              LET kw == calls[i - 1].arg
              IN  /\ ("ParentRecordID" \in DOMAIN calls[i].val)
                        <=> ("parent_record_id" \in DOMAIN kw)
                  /\ "parent_record_id" \in DOMAIN kw =>
                        calls[i].val["ParentRecordID"] = kw["parent_record_id"]
        /\ (i > 1 /\ calls[i - 1].op = "ComputeUsageRecord.from_dict") =>
              LET d == calls[i - 1].arg
              IN  /\ ("ParentRecordID" \in DOMAIN calls[i].val)
                        <=> ("ParentRecordID" \in DOMAIN d)
                  /\ "ParentRecordID" \in DOMAIN d =>
                        calls[i].val["ParentRecordID"] = d["ParentRecordID"]

\* C7: for every record r, from_dict(r.as_dict) returns a record, and the
\* as_dict of that record equals r.as_dict.
C7_RecordRoundTrip ==
    \A i \in CallsOf("ComputeUsageRecord.from_dict") :
        (i > 1 /\ calls[i - 1].op = "ComputeUsageRecord.as_dict") =>
            /\ calls[i].exc = "None"
            /\ calls[i].kind = "record"
            /\ RecordAsDict(calls[i].val) = calls[i - 1].val

\* C8: for every message m of one or more records, m.as_json returns a text,
\* from_json of that text returns a message with as many records, and the
\* as_dict of that message equals m.as_dict.
C8_MessageRoundTrip ==
    /\ \A i \in CallsOf("UsageMessage.as_json") :
           Len(calls[i].arg.records) >= 1 =>
               /\ calls[i].exc = "None"
               /\ calls[i].kind = "message_json"
    /\ \A i \in CallsOf("UsageMessage.from_json") :
           (i > 1 /\ calls[i - 1].op = "UsageMessage.as_json") =>
               /\ calls[i].exc = "None"
               /\ Len(calls[i].val.records) = Len(calls[i - 1].arg.records)
               /\ MessageAsDict(calls[i].val) = MessageAsDict(calls[i - 1].arg)

\* a wire dictionary of a message whose Records hold a record dictionary
\* that lacks a required key
HasDefectiveRecord(d) ==
    /\ {"UsageType", "Records"} \subseteq DOMAIN d
    /\ \E r \in DOMAIN d["Records"] : ~ConformsToSchema(d["Records"][r])

\* C9: from_dict of a record raises KeyError and returns no record when the
\* dictionary lacks a required key (the eight top-level keys, Attributes,
\* NodeCount in Attributes); it returns a record when only optional keys are
\* absent; from_dict of a message whose Records hold a dictionary lacking a
\* required key raises and returns no message.
C9_MissingRequiredKeyFails ==
    /\ \A i \in CallsOf("ComputeUsageRecord.from_dict") :
           IF ConformsToSchema(calls[i].arg)
           THEN calls[i].exc = "None" /\ calls[i].kind = "record"
           ELSE calls[i].exc = "KeyError" /\ calls[i].kind = "none"
    /\ \A i \in CallsOf("UsageMessage.from_dict") :
           HasDefectiveRecord(calls[i].arg) =>
               calls[i].exc # "None" /\ calls[i].kind = "none"

C9_Witness ==
    \E i \in CallsOf("ComputeUsageRecord.from_dict") :
        /\ DOMAIN calls[i].arg = AllTopKeys
        /\ DOMAIN calls[i].arg["Attributes"] = AttributeKeys \ {"NodeCount"}
        /\ calls[i].exc = "KeyError"
        /\ calls[i].detail = "NodeCount"

\* C10: while and after the chunks are drawn, with any chunk size, the
\* message _chunked was called on is what it was when _chunked was called;
\* and once a next() has not yielded, no later next() yields.
C10_ChunkingLeavesSourceUnchanged ==
    /\ gen.state # "none" => gen.self = ChunkedArg.self
    /\ \A i, j \in NextCalls :
           (i < j /\ calls[i].exc # "None") => calls[j].exc = "StopIteration"

C10_Witness ==
    /\ gen.state = "closed"
    /\ Len(ChunkedArg.self.records) >= 2
    /\ ChunkedArg.chunk_size = 1
    /\ Cardinality(NextCalls) >= 2
=============================================================================
